---- MODULE Spec2Model ----
(***************************************************************************)
(* Priority-inheritance holder bookkeeping of sched/semaphore/sem_holder.c *)
(* as a state machine.  One build is one pair (CONFIG_SEM_PREALLOCHOLDERS, *)
(* CONFIG_SEM_NNESTPRIO); Init picks the build, the actions are the public *)
(* entry points of the file.                                               *)
(***************************************************************************)
EXTENDS Integers, Sequences, FiniteSets, TLC

(* ------------------------------------------------------------------ *)
(* Bounds of the model                                                  *)
(* ------------------------------------------------------------------ *)

\* number of preallocated holders of the pooled build
PREALLOC_HOLDERS == 2

\* size of the per-thread boost ledger of the nested build
MAX_NEST == 2

\* cap on the counts one thread holds on one semaphore (int16_t in the code)
MaxCounts == 2

\* cap on the number of threads that exit while the model runs
MaxDead == 1

\* cap on the counts held on all semaphores together
MaxHeld == 3

\* cap on the number of entry-point calls of one run
MaxOps == 4

(* ------------------------------------------------------------------ *)
(* Threads and semaphores                                               *)
(* ------------------------------------------------------------------ *)

Threads == {"L", "M", "H"}

Sems == {"semA", "semB"}

\* priorities the threads are created with (higher number = more urgent)
InitPrio == [t \in Threads |-> IF t = "L" THEN 10 ELSE IF t = "M" THEN 20 ELSE 30]

\* a NULL thread handle (htcb / stcb)
NULL == "NULL"

\* a NULL holder pointer; pooled holders are g_holderalloc[1..N], the two
\* inline holders sem->holder[0], sem->holder[1] are slots 1 and 2
NOHOLDER == 0

PRIOINHERIT_FLAGS_DISABLE == 1

VARIABLES
  cfg_preallocholders, \* CONFIG_SEM_PREALLOCHOLDERS of this build (0: inline)
  cfg_nnestprio,       \* CONFIG_SEM_NNESTPRIO of this build (0: single boost)
  holder,              \* sem->holder[2] of every semaphore (inline build)
  hhead,               \* sem->hhead of every semaphore (pooled build)
  g_holderalloc,       \* the preallocated holders (pooled build)
  g_freeholders,       \* head of the free list (pooled build)
  flags,               \* sem->flags of every semaphore
  tcb,                 \* sched_priority, base_priority, sem_boosts of every thread
  live,                \* the handles nxsched_verify_tcb() accepts
  waiting,             \* history: the semaphore and priority each blocked thread waits with
  log,                 \* history: what the last entry point did to holders and TCBs, in order
  degraded,            \* history: serr() was called (no holder or no boost slot left)
  asserted,            \* history: the DEBUGASSERT conditions the last entry point found false
  twin,                \* the same calls made on a pooled holder store, or NoTwin
  trail,               \* history: a release_holder and the restore_baseprio that follows it
  fuel,                \* the number of entry-point calls left in this run
  pc                   \* the loop being stepped through and its local variables, or Idle

vars == <<cfg_preallocholders, cfg_nnestprio, holder, hhead, g_holderalloc,
          g_freeholders, flags, tcb, live, waiting, log, degraded, asserted,
          twin, trail, fuel, pc>>

Pooled == cfg_preallocholders > 0

Nested == cfg_nnestprio > 0

Max(a, b) == IF a > b THEN a ELSE b

(* ------------------------------------------------------------------ *)
(* The memory the file works on, as one record                          *)
(* ------------------------------------------------------------------ *)

\* the memory before an entry point runs; rtcb is this_task()
Mem(rtcb) ==
  [holder |-> holder, hhead |-> hhead, g_holderalloc |-> g_holderalloc,
   g_freeholders |-> g_freeholders, tcb |-> tcb, this_task |-> rtcb,
   log |-> <<>>, degraded |-> degraded, asserted |-> {}, handler |-> NULL,
   sem |-> NULL, prealloc |-> cfg_preallocholders, visits |-> <<>>]

\* the memory belongs to a build with CONFIG_SEM_PREALLOCHOLDERS > 0
IsPooled(m) == m.prealloc > 0

\* the holders, lists and thread fields of a memory run side by side
Paired(m) ==
  [on |-> TRUE, holder |-> m.holder, hhead |-> m.hhead,
   g_holderalloc |-> m.g_holderalloc, g_freeholders |-> m.g_freeholders,
   tcb |-> m.tcb]

NoTwin == [on |-> FALSE]

\* the pooled build that is run side by side with the inline build has as
\* many holders as a semaphore of the inline build
PairHolders == 2

\* the memory of the pooled build run side by side; rtcb is this_task()
TwinMem(rtcb) ==
  [holder |-> twin.holder, hhead |-> twin.hhead,
   g_holderalloc |-> twin.g_holderalloc, g_freeholders |-> twin.g_freeholders,
   tcb |-> twin.tcb, this_task |-> rtcb, log |-> <<>>, degraded |-> FALSE,
   asserted |-> {}, handler |-> NULL, sem |-> NULL, prealloc |-> PairHolders,
   visits |-> <<>>]

EmptyHolder == [htcb |-> NULL, counts |-> 0]

\* struct semholder_s behind a holder pointer
Holder(m, sem, p) ==
  IF IsPooled(m) THEN [htcb |-> m.g_holderalloc[p].htcb, counts |-> m.g_holderalloc[p].counts]
  ELSE m.holder[sem][p]

\* pholder->htcb = h; pholder->counts = c
SetHolder(m, sem, p, h, c) ==
  IF IsPooled(m)
  THEN [m EXCEPT !.g_holderalloc[p].htcb = h, !.g_holderalloc[p].counts = c]
  ELSE [m EXCEPT !.holder[sem][p] = [htcb |-> h, counts |-> c]]

\* the holder pointers of sem's list, head first (pooled build)
RECURSIVE ListFrom(_, _)
ListFrom(m, p) ==
  IF p = NOHOLDER THEN <<>> ELSE <<p>> \o ListFrom(m, m.g_holderalloc[p].flink)

\* every holder pointer for_each / find may look at, in visiting order
HolderPtrs(m, sem) == IF IsPooled(m) THEN ListFrom(m, m.hhead[sem]) ELSE <<1, 2>>

(* ------------------------------------------------------------------ *)
(* Holder store                                                         *)
(* ------------------------------------------------------------------ *)

\* what a function that returns a holder pointer gives: the memory it
\* leaves and the pointer
Got(m, pholder) == [m |-> m, pholder |-> pholder]

\* serr(): the failure is only reported
serr(m) == [m EXCEPT !.degraded = TRUE]

\* DEBUGASSERT(cond): a build with CONFIG_DEBUG_ASSERTIONS stops here when cond
\* is false, any other build goes on; a false condition is recorded
DEBUGASSERT(m, cond, text) ==
  IF cond THEN m ELSE [m EXCEPT !.asserted = @ \cup {text}]

\* the holder nxsem_allocholder picks: the head of the free list, or the
\* first slot of sem whose htcb is NULL
FreeSlot(m, sem) ==
  IF IsPooled(m) THEN m.g_freeholders
  ELSE IF m.holder[sem][1].htcb = NULL THEN 1
  ELSE IF m.holder[sem][2].htcb = NULL THEN 2
  ELSE NOHOLDER

\* nxsem_allocholder up to its closing assertion
AllocSearch(m, sem) ==
  LET pholder == FreeSlot(m, sem) IN
  IF pholder = NOHOLDER THEN Got(serr(m), NOHOLDER)
  ELSE IF IsPooled(m)
       THEN Got([m EXCEPT !.g_freeholders = m.g_holderalloc[pholder].flink,
                          !.g_holderalloc[pholder].flink = m.hhead[sem],
                          !.hhead[sem] = pholder,
                          !.g_holderalloc[pholder].counts = 0], pholder)
       ELSE Got([m EXCEPT !.holder[sem][pholder].counts = 0], pholder)

nxsem_allocholder(m, sem) ==
  LET r == AllocSearch(m, sem) IN
  Got(DEBUGASSERT(r.m, r.pholder # NOHOLDER, "pholder != NULL"), r.pholder)

\* the list walk of nxsem_findholder (pooled build)
RECURSIVE FindInList(_, _, _)
FindInList(m, p, htcb) ==
  IF p = NOHOLDER THEN NOHOLDER
  ELSE IF m.g_holderalloc[p].htcb = htcb THEN p
  ELSE FindInList(m, m.g_holderalloc[p].flink, htcb)

\* variant of nxsem_findholder that looks for the thread in the whole pool
\* instead of on the list of sem
nxsem_findholder_pool(m, sem, htcb) ==
  IF IsPooled(m)
  THEN LET found == {p \in DOMAIN m.g_holderalloc : m.g_holderalloc[p].htcb = htcb}
       IN IF found = {} THEN NOHOLDER
          ELSE CHOOSE p \in found : \A q \in found : p <= q
  ELSE IF m.holder[sem][1].htcb = htcb THEN 1
  ELSE IF m.holder[sem][2].htcb = htcb THEN 2
  ELSE NOHOLDER

nxsem_findholder(m, sem, htcb) ==
  IF IsPooled(m) THEN FindInList(m, m.hhead[sem], htcb)
  ELSE IF m.holder[sem][1].htcb = htcb THEN 1
  ELSE IF m.holder[sem][2].htcb = htcb THEN 2
  ELSE NOHOLDER

\* variant of nxsem_findorallocateholder that allocates without looking for
\* the holder the thread has
nxsem_findorallocateholder_fresh(m, sem, htcb) ==
  nxsem_allocholder(m, sem)

nxsem_findorallocateholder(m, sem, htcb) ==
  LET pholder == nxsem_findholder(m, sem, htcb) IN
  IF pholder = NOHOLDER THEN nxsem_allocholder(m, sem) ELSE Got(m, pholder)

\* the (prev, curr) search of nxsem_freeholder: the predecessor of pholder on
\* sem's list, NOHOLDER when pholder is the head; found is curr != NULL
RECURSIVE FindPrev(_, _, _, _)
FindPrev(m, prev, curr, pholder) ==
  IF curr = NOHOLDER \/ curr = pholder
  THEN [prev |-> prev, found |-> curr # NOHOLDER]
  ELSE FindPrev(m, curr, m.g_holderalloc[curr].flink, pholder)

\* variant of nxsem_freeholder that unlinks the holder and does not put it
\* on the free list
nxsem_freeholder_leak(m, sem, pholder) ==
  LET m1 == SetHolder(m, sem, pholder, NULL, 0) IN
  IF ~IsPooled(m) THEN m1
  ELSE LET r == FindPrev(m1, NOHOLDER, m1.hhead[sem], pholder) IN
       IF ~r.found THEN m1
       ELSE IF r.prev # NOHOLDER
            THEN [m1 EXCEPT !.g_holderalloc[r.prev].flink =
                               m1.g_holderalloc[pholder].flink]
            ELSE [m1 EXCEPT !.hhead[sem] = m1.g_holderalloc[pholder].flink]

nxsem_freeholder(m, sem, pholder) ==
  LET m1 == SetHolder(m, sem, pholder, NULL, 0) IN
  IF ~IsPooled(m) THEN m1
  ELSE LET r == FindPrev(m1, NOHOLDER, m1.hhead[sem], pholder) IN
       IF ~r.found THEN m1
       ELSE LET m2 == IF r.prev # NOHOLDER
                      THEN [m1 EXCEPT !.g_holderalloc[r.prev].flink =
                                         m1.g_holderalloc[pholder].flink]
                      ELSE [m1 EXCEPT !.hhead[sem] = m1.g_holderalloc[pholder].flink]
            IN [m2 EXCEPT !.g_holderalloc[pholder].flink = m2.g_freeholders,
                          !.g_freeholders = pholder]

\* variant of nxsem_findandfreeholder that frees below zero counts only
nxsem_findandfreeholder_negative(m, sem, htcb) ==
  LET pholder == nxsem_findholder(m, sem, htcb) IN
  IF pholder # NOHOLDER /\ Holder(m, sem, pholder).counts < 0
  THEN nxsem_freeholder(m, sem, pholder)
  ELSE m

nxsem_findandfreeholder(m, sem, htcb) ==
  LET pholder == nxsem_findholder(m, sem, htcb) IN
  IF pholder # NOHOLDER /\ Holder(m, sem, pholder).counts <= 0
  THEN nxsem_freeholder(m, sem, pholder)
  ELSE m

(* ------------------------------------------------------------------ *)
(* Scheduler interface                                                  *)
(* ------------------------------------------------------------------ *)

\* one entry of the log: the handler running for m.sem read fields of *t
\* ("deref"), found t stale ("stale"), or called the scheduler on t with
\* priority p; task is this_task() and slot the holder nxsem_allocholder
\* would pick for m.sem at that moment
Event(m, call, t, p) ==
  [call |-> call, by |-> m.handler, sem |-> m.sem, tcb |-> t, prio |-> p,
   task |-> m.this_task, slot |-> FreeSlot(m, m.sem)]

Logged(m, call, t, p) == [m EXCEPT !.log = Append(m.log, Event(m, call, t, p))]

nxsched_verify_tcb(t) == t \in live

nxsched_set_priority(m, t, p) ==
  Logged([m EXCEPT !.tcb[t].sched_priority = p], "nxsched_set_priority", t, p)

nxsched_reprioritize(m, t, p) ==
  Logged([m EXCEPT !.tcb[t].sched_priority = p, !.tcb[t].base_priority = p],
         "nxsched_reprioritize", t, p)

(* ------------------------------------------------------------------ *)
(* Boost ledger (CONFIG_SEM_NNESTPRIO > 0)                              *)
(* ------------------------------------------------------------------ *)

\* sem_boosts[i] = sem_boosts[nsem_boosts-1]; nsem_boosts--   (i counted from 1)
RemoveBoost(boosts, i) ==
  LET n == Len(boosts) IN
  [k \in 1..(n - 1) |-> IF k = i THEN boosts[n] ELSE boosts[k]]

\* variant of DiscardBoosts that goes on to the next index after it removed
\* a boost
RECURSIVE DiscardBoosts_next(_, _, _)
DiscardBoosts_next(boosts, i, sem) ==
  IF i > Len(boosts) THEN boosts
  ELSE IF boosts[i].sem = sem
       THEN DiscardBoosts_next(RemoveBoost(boosts, i), i + 1, sem)
       ELSE DiscardBoosts_next(boosts, i + 1, sem)

\* the loop that discards every boost of sem, re-checking the current index
RECURSIVE DiscardBoosts(_, _, _)
DiscardBoosts(boosts, i, sem) ==
  IF i > Len(boosts) THEN boosts
  ELSE IF boosts[i].sem = sem THEN DiscardBoosts(RemoveBoost(boosts, i), i, sem)
  ELSE DiscardBoosts(boosts, i + 1, sem)

\* the loop that looks for the highest boost of sem: the index found so far
\* (0 for max_boost_index == -1) and max_boost_priority
RECURSIVE MaxBoostIndex(_, _, _, _, _)
MaxBoostIndex(boosts, i, sem, max_boost_index, max_boost_priority) ==
  IF i > Len(boosts) THEN max_boost_index
  ELSE IF boosts[i].sem = sem /\ max_boost_priority < boosts[i].priority
  THEN MaxBoostIndex(boosts, i + 1, sem, i, boosts[i].priority)
  ELSE MaxBoostIndex(boosts, i + 1, sem, max_boost_index, max_boost_priority)

\* the loop that finds the new priority among the boosts still present
RECURSIVE NewPriority(_, _, _)
NewPriority(boosts, i, new_priority) ==
  IF i > Len(boosts) THEN new_priority
  ELSE NewPriority(boosts, i + 1,
                   IF boosts[i].priority > new_priority
                   THEN boosts[i].priority ELSE new_priority)

(* ------------------------------------------------------------------ *)
(* Handlers of nxsem_foreachholder; each gives [m, ret]                 *)
(* ------------------------------------------------------------------ *)

Ret(m, ret) == [m |-> m, ret |-> ret]

\* variant of BoostNested that sets the priority of the new boost without
\* comparing it with the priority the holder runs at
BoostNested_always(m, htcb, sem, rtcb) ==
  IF m.tcb[rtcb].sched_priority > m.tcb[htcb].base_priority
  THEN IF Len(m.tcb[htcb].sem_boosts) < cfg_nnestprio
       THEN LET boost == [sem |-> sem, priority |-> m.tcb[rtcb].sched_priority]
                m1 == [m EXCEPT !.tcb[htcb].sem_boosts = Append(@, boost)]
            IN nxsched_set_priority(m1, htcb, boost.priority)
       ELSE serr(m)
  ELSE m

\* variant of BoostNested that stores the boost whatever the ledger holds
BoostNested_nolimit(m, htcb, sem, rtcb) ==
  IF m.tcb[rtcb].sched_priority > m.tcb[htcb].base_priority
  THEN LET boost == [sem |-> sem, priority |-> m.tcb[rtcb].sched_priority]
           m1 == [m EXCEPT !.tcb[htcb].sem_boosts = Append(@, boost)]
       IN IF boost.priority > m1.tcb[htcb].sched_priority
          THEN nxsched_set_priority(m1, htcb, boost.priority)
          ELSE m1
  ELSE m

\* the nested-build branch of nxsem_boostholderprio, htcb verified
BoostNested(m, htcb, sem, rtcb) ==
  IF m.tcb[rtcb].sched_priority > m.tcb[htcb].base_priority
  THEN IF Len(m.tcb[htcb].sem_boosts) < cfg_nnestprio
       THEN LET boost == [sem |-> sem, priority |-> m.tcb[rtcb].sched_priority]
                m1 == [m EXCEPT !.tcb[htcb].sem_boosts = Append(@, boost)]
            IN IF boost.priority > m1.tcb[htcb].sched_priority
               THEN nxsched_set_priority(m1, htcb, boost.priority)
               ELSE m1
       ELSE serr(m)
  ELSE m

\* variant of BoostSingle that takes the priority of the waiter whatever the
\* holder runs at
BoostSingle_always(m, htcb, sem, rtcb) ==
  nxsched_set_priority(m, htcb, m.tcb[rtcb].sched_priority)

\* the single-boost branch of nxsem_boostholderprio, htcb verified
BoostSingle(m, htcb, sem, rtcb) ==
  IF m.tcb[rtcb].sched_priority > m.tcb[htcb].sched_priority
  THEN nxsched_set_priority(m, htcb, m.tcb[rtcb].sched_priority)
  ELSE m

\* variant of nxsem_boostholderprio that goes on to the boost after it freed
\* the holder of a stale handle
nxsem_boostholderprio_noelse(m, pholder, sem, arg) ==
  LET htcb == Holder(m, sem, pholder).htcb
      rtcb == arg
      m1 == IF ~nxsched_verify_tcb(htcb)
            THEN nxsem_freeholder(Logged(m, "stale", htcb, 0), sem, pholder)
            ELSE m
  IN IF Nested
     THEN Ret(BoostNested(Logged(m1, "deref", htcb, 0), htcb, sem, rtcb), 0)
     ELSE Ret(BoostSingle(Logged(m1, "deref", htcb, 0), htcb, sem, rtcb), 0)

nxsem_boostholderprio(m, pholder, sem, arg) ==
  LET htcb == Holder(m, sem, pholder).htcb
      rtcb == arg
  IN IF ~nxsched_verify_tcb(htcb)
     THEN Ret(nxsem_freeholder(Logged(m, "stale", htcb, 0), sem, pholder), 0)
     ELSE IF Nested
     THEN Ret(BoostNested(Logged(m, "deref", htcb, 0), htcb, sem, rtcb), 0)
     ELSE Ret(BoostSingle(Logged(m, "deref", htcb, 0), htcb, sem, rtcb), 0)

\* variant of RestoreNested that takes the new priority from the ledger as it
\* was before the removal
RestoreNested_before(m, htcb, sem, pholder) ==
  LET boosts == m.tcb[htcb].sem_boosts
      kept == IF pholder = NOHOLDER \/ Holder(m, sem, pholder).counts = 0
              THEN DiscardBoosts(boosts, 1, sem)
              ELSE LET max_boost_index == MaxBoostIndex(boosts, 1, sem, 0, 0) IN
                   IF max_boost_index >= 1
                   THEN RemoveBoost(boosts, max_boost_index)
                   ELSE boosts
      m1 == [m EXCEPT !.tcb[htcb].sem_boosts = kept]
      new_priority == NewPriority(boosts, 1, m.tcb[htcb].base_priority)
  IN IF new_priority # m1.tcb[htcb].sched_priority
     THEN nxsched_set_priority(m1, htcb, new_priority)
     ELSE m1

\* variant of RestoreNested that discards every boost of sem, whatever counts
\* the holder still has
RestoreNested_discard(m, htcb, sem, pholder) ==
  LET boosts == m.tcb[htcb].sem_boosts
      kept == DiscardBoosts(boosts, 1, sem)
      m1 == [m EXCEPT !.tcb[htcb].sem_boosts = kept]
      new_priority == NewPriority(kept, 1, m.tcb[htcb].base_priority)
  IN IF new_priority # m1.tcb[htcb].sched_priority
     THEN nxsched_set_priority(m1, htcb, new_priority)
     ELSE m1

\* the nested-build branch of nxsem_restoreholderprio, htcb verified and boosted
RestoreNested(m, htcb, sem, pholder) ==
  LET boosts == m.tcb[htcb].sem_boosts
      kept == IF pholder = NOHOLDER \/ Holder(m, sem, pholder).counts = 0
              THEN DiscardBoosts(boosts, 1, sem)
              ELSE LET max_boost_index == MaxBoostIndex(boosts, 1, sem, 0, 0) IN
                   IF max_boost_index >= 1
                   THEN RemoveBoost(boosts, max_boost_index)
                   ELSE boosts
      m1 == [m EXCEPT !.tcb[htcb].sem_boosts = kept]
      new_priority == NewPriority(kept, 1, m.tcb[htcb].base_priority)
  IN IF new_priority # m1.tcb[htcb].sched_priority
     THEN nxsched_set_priority(m1, htcb, new_priority)
     ELSE m1

nxsem_restoreholderprio(m, htcb, sem, arg) ==
  LET pholder == nxsem_findholder(m, sem, htcb) IN
  IF ~nxsched_verify_tcb(htcb)
  THEN LET m1 == Logged(m, "stale", htcb, 0) IN
       Ret(IF pholder # NOHOLDER THEN nxsem_freeholder(m1, sem, pholder) ELSE m1, 0)
  ELSE LET m1 == Logged(m, "deref", htcb, 0) IN
       IF m1.tcb[htcb].sched_priority # m1.tcb[htcb].base_priority
       THEN IF Nested
            THEN Ret(RestoreNested(m1, htcb, sem, pholder), 0)
            ELSE Ret(nxsched_reprioritize(m1, htcb, m1.tcb[htcb].base_priority), 0)
       ELSE Ret(m1, 0)

nxsem_restoreholderprioall(m, pholder, sem, arg) ==
  nxsem_restoreholderprio(m, Holder(m, sem, pholder).htcb, sem, arg)

nxsem_restoreholderprio_others(m, pholder, sem, arg) ==
  LET rtcb == m.this_task IN
  IF Holder(m, sem, pholder).htcb # rtcb
  THEN nxsem_restoreholderprio(m, Holder(m, sem, pholder).htcb, sem, arg)
  ELSE Ret(m, 0)

\* variant of nxsem_restoreholderprio_self that leaves the holder of the
\* running thread in place while it is reprioritized
nxsem_restoreholderprio_self_keep(m, pholder, sem, arg) ==
  LET rtcb == m.this_task IN
  IF Holder(m, sem, pholder).htcb = rtcb
  THEN Ret(nxsem_restoreholderprio(m, rtcb, sem, arg).m, 1)
  ELSE Ret(m, 0)

nxsem_restoreholderprio_self(m, pholder, sem, arg) ==
  LET rtcb == m.this_task IN
  IF Holder(m, sem, pholder).htcb = rtcb
  THEN LET m1 == IF ~IsPooled(m) THEN nxsem_findandfreeholder(m, sem, rtcb) ELSE m
       IN Ret(nxsem_restoreholderprio(m1, rtcb, sem, arg).m, 1)
  ELSE Ret(m, 0)

nxsem_recoverholders(m, pholder, sem, arg) ==
  Ret(nxsem_freeholder(m, sem, pholder), 0)

\* the assertions of nxsem_verifyholder are compiled out (#if 0)
nxsem_verifyholder(m, pholder, sem, arg) == Ret(m, 0)

\* handler(pholder, sem, arg) for a holderhandler_t named by a string
Handle(handler, m0, pholder, sem, arg) ==
  LET m == [m0 EXCEPT !.handler = handler, !.sem = sem] IN
  CASE handler = "nxsem_boostholderprio" -> nxsem_boostholderprio(m, pholder, sem, arg)
    [] handler = "nxsem_restoreholderprioall" -> nxsem_restoreholderprioall(m, pholder, sem, arg)
    [] handler = "nxsem_restoreholderprio_others" -> nxsem_restoreholderprio_others(m, pholder, sem, arg)
    [] handler = "nxsem_restoreholderprio_self" -> nxsem_restoreholderprio_self(m, pholder, sem, arg)
    [] handler = "nxsem_recoverholders" -> nxsem_recoverholders(m, pholder, sem, arg)
    [] handler = "nxsem_verifyholder" -> nxsem_verifyholder(m, pholder, sem, arg)

\* what a handler call leaves, with the call added to the visits
Visit(r, pholder) ==
  Ret([r.m EXCEPT !.visits = Append(@, [pholder |-> pholder, ret |-> r.ret])],
      r.ret)

\* ret = handler(pholder, sem, arg) in nxsem_foreachholder; the memory keeps
\* the holder the handler was called on and what it returned
CallHandler(handler, m0, pholder, sem, arg) ==
  Visit(Handle(handler, m0, pholder, sem, arg), pholder)

\* variant of ForEachPooled that reads the link of a holder after the handler
\* has run on it
RECURSIVE ForEachPooled_late(_, _, _, _, _, _)
ForEachPooled_late(m, sem, pholder, ret, handler, arg) ==
  IF pholder = NOHOLDER \/ ret # 0 THEN Ret(m, ret)
  ELSE LET r == IF m.g_holderalloc[pholder].htcb # NULL
                THEN CallHandler(handler, m, pholder, sem, arg)
                ELSE Ret(m, ret)
           next == r.m.g_holderalloc[pholder].flink
       IN ForEachPooled_late(r.m, sem, next, r.ret, handler, arg)

\* the loop of the pooled build: stops at the first nonzero ret, next is
\* read before the handler runs
RECURSIVE ForEachPooled(_, _, _, _, _, _)
ForEachPooled(m, sem, pholder, ret, handler, arg) ==
  IF pholder = NOHOLDER \/ ret # 0 THEN Ret(m, ret)
  ELSE LET next == m.g_holderalloc[pholder].flink
           r == IF m.g_holderalloc[pholder].htcb # NULL
                THEN CallHandler(handler, m, pholder, sem, arg)
                ELSE Ret(m, ret)
       IN ForEachPooled(r.m, sem, next, r.ret, handler, arg)

\* the loop of the inline build: both slots are visited whatever ret is
RECURSIVE ForEachInline(_, _, _, _, _, _)
ForEachInline(m, sem, i, ret, handler, arg) ==
  IF i > 2 THEN Ret(m, ret)
  ELSE LET r == IF m.holder[sem][i].htcb # NULL
                THEN CallHandler(handler, m, i, sem, arg)
                ELSE Ret(m, ret)
       IN ForEachInline(r.m, sem, i + 1, r.ret, handler, arg)

\* variant of nxsem_foreachholder whose inline loop looks at the second slot
\* only
nxsem_foreachholder_first(m, sem, handler, arg) ==
  IF IsPooled(m) THEN ForEachPooled(m, sem, m.hhead[sem], 0, handler, arg)
  ELSE ForEachInline(m, sem, 2, 0, handler, arg)

nxsem_foreachholder(m, sem, handler, arg) ==
  IF IsPooled(m) THEN ForEachPooled(m, sem, m.hhead[sem], 0, handler, arg)
  ELSE ForEachInline(m, sem, 1, 0, handler, arg)

(* ------------------------------------------------------------------ *)
(* Public functions, as functions of the memory                         *)
(* ------------------------------------------------------------------ *)

\* the free list built by nxsem_initialize_holders over n holders
nxsem_initialize_holders(n) ==
  [i \in 1..n |-> [flink |-> IF i < n THEN i + 1 ELSE NOHOLDER,
                   htcb |-> NULL, counts |-> 0]]

\* variant of nxsem_add_holder_tcb that does not look at the flags
nxsem_add_holder_tcb_any(m, htcb, sem) ==
  LET r == nxsem_findorallocateholder(m, sem, htcb) IN
  IF r.pholder # NOHOLDER
  THEN SetHolder(r.m, sem, r.pholder, htcb,
                 Holder(r.m, sem, r.pholder).counts + 1)
  ELSE r.m

nxsem_add_holder_tcb(m, htcb, sem) ==
  IF flags[sem] % (2 * PRIOINHERIT_FLAGS_DISABLE) < PRIOINHERIT_FLAGS_DISABLE
  THEN LET r == nxsem_findorallocateholder(m, sem, htcb) IN
       IF r.pholder # NOHOLDER
       THEN SetHolder(r.m, sem, r.pholder, htcb,
                      Holder(r.m, sem, r.pholder).counts + 1)
       ELSE r.m
  ELSE m

nxsem_boost_priority(m, sem) ==
  nxsem_foreachholder(m, sem, "nxsem_boostholderprio", m.this_task).m

\* variant of nxsem_release_holder that decrements whatever the counts are
nxsem_release_holder_any(m, sem) ==
  LET rtcb == m.this_task
      pholder == nxsem_findholder(m, sem, rtcb)
  IN IF pholder # NOHOLDER
     THEN SetHolder(m, sem, pholder, rtcb, Holder(m, sem, pholder).counts - 1)
     ELSE m

nxsem_release_holder(m, sem) ==
  LET rtcb == m.this_task
      pholder == nxsem_findholder(m, sem, rtcb)
  IN IF pholder # NOHOLDER /\ Holder(m, sem, pholder).counts > 0
     THEN SetHolder(m, sem, pholder, rtcb, Holder(m, sem, pholder).counts - 1)
     ELSE m

\* variant of nxsem_restore_baseprio_irq that skips the interrupted thread
nxsem_restore_baseprio_irq_others(m, stcb, sem) ==
  IF stcb # NULL
  THEN nxsem_foreachholder(m, sem, "nxsem_restoreholderprio_others", stcb).m
  ELSE nxsem_foreachholder(m, sem, "nxsem_verifyholder", NULL).m

nxsem_restore_baseprio_irq(m, stcb, sem) ==
  IF stcb # NULL
  THEN nxsem_foreachholder(m, sem, "nxsem_restoreholderprioall", stcb).m
  ELSE nxsem_foreachholder(m, sem, "nxsem_verifyholder", NULL).m

\* variant of nxsem_restore_baseprio_task that restores the running thread
\* first
nxsem_restore_baseprio_task_selffirst(m, stcb, sem) ==
  LET rtcb == m.this_task
      m1 == IF stcb # NULL
            THEN LET self == nxsem_foreachholder(m, sem,
                               "nxsem_restoreholderprio_self", stcb).m
                 IN nxsem_foreachholder(self, sem,
                               "nxsem_restoreholderprio_others", stcb).m
            ELSE nxsem_foreachholder(m, sem, "nxsem_verifyholder", NULL).m
  IN nxsem_findandfreeholder(m1, sem, rtcb)

nxsem_restore_baseprio_task(m, stcb, sem) ==
  LET rtcb == m.this_task
      m1 == IF stcb # NULL
            THEN LET others == nxsem_foreachholder(m, sem,
                                 "nxsem_restoreholderprio_others", stcb).m
                 IN nxsem_foreachholder(others, sem,
                                 "nxsem_restoreholderprio_self", stcb).m
            ELSE nxsem_foreachholder(m, sem, "nxsem_verifyholder", NULL).m
  IN nxsem_findandfreeholder(m1, sem, rtcb)

nxsem_restore_baseprio(m, stcb, sem, up_interrupt_context) ==
  IF up_interrupt_context
  THEN nxsem_restore_baseprio_irq(m, stcb, sem)
  ELSE nxsem_restore_baseprio_task(m, stcb, sem)

nxsem_canceled(m, stcb, sem) ==
  nxsem_foreachholder(m, sem, "nxsem_restoreholderprioall", stcb).m

\* variant of nxsem_destroyholder that clears the one holder its assertions
\* expect
nxsem_destroyholder_one(m, sem) ==
  IF IsPooled(m)
  THEN IF m.hhead[sem] # NOHOLDER
       THEN nxsem_freeholder(m, sem, m.hhead[sem])
       ELSE m
  ELSE IF m.holder[sem][1].htcb # NULL
       THEN [m EXCEPT !.holder[sem][1].htcb = NULL]
       ELSE [m EXCEPT !.holder[sem][2].htcb = NULL]

nxsem_destroyholder(m, sem) ==
  IF IsPooled(m)
  THEN IF m.hhead[sem] # NOHOLDER
       THEN LET m1 == DEBUGASSERT(m, m.g_holderalloc[m.hhead[sem]].flink = NOHOLDER,
                                  "sem->hhead->flink == NULL")
            IN nxsem_foreachholder(m1, sem, "nxsem_recoverholders", NULL).m
       ELSE m
  ELSE LET m1 == DEBUGASSERT(m, m.holder[sem][1].htcb = NULL
                                  \/ m.holder[sem][2].htcb = NULL,
                     "sem->holder[0].htcb == NULL || sem->holder[1].htcb == NULL")
       IN [m1 EXCEPT !.holder[sem][1].htcb = NULL, !.holder[sem][2].htcb = NULL]

(* ------------------------------------------------------------------ *)
(* The state machine                                                    *)
(* ------------------------------------------------------------------ *)

NotWaiting == [sem |-> NULL, priority |-> 0]

\* no loop is being stepped through
Idle == [loop |-> "none"]

\* (sem->flags & PRIOINHERIT_FLAGS_DISABLE) != 0
Disabled(sem) ==
  flags[sem] % (2 * PRIOINHERIT_FLAGS_DISABLE) >= PRIOINHERIT_FLAGS_DISABLE

\* the threads blocked on sem
Waiters(sem) == {t \in Threads : waiting[t].sem = sem}

\* t is blocked on sem and no thread blocked on sem has a higher priority:
\* the thread a post hands the count to
TopWaiter(t, sem) ==
  /\ t \in Waiters(sem)
  /\ \A w \in Waiters(sem) : tcb[w].sched_priority <= tcb[t].sched_priority

\* a thread that can be this_task(): it exists and is not blocked
Running(t) == t \in live /\ waiting[t].sem = NULL

\* the threads with a holder on sem
HoldersOf(m, sem) ==
  {Holder(m, sem, HolderPtrs(m, sem)[i]).htcb : i \in 1..Len(HolderPtrs(m, sem))}
    \ {NULL}

\* the counts recorded on sem, and on all semaphores
RECURSIVE SumCounts(_, _, _)
SumCounts(m, sem, ptrs) ==
  IF ptrs = <<>> THEN 0
  ELSE Holder(m, sem, Head(ptrs)).counts + SumCounts(m, sem, Tail(ptrs))

RECURSIVE HeldOn(_, _)
HeldOn(m, sems) ==
  IF sems = {} THEN 0
  ELSE LET s == CHOOSE x \in sems : TRUE
       IN SumCounts(m, s, HolderPtrs(m, s)) + HeldOn(m, sems \ {s})

NoTrail == [stage |-> "none", sem |-> NULL, rtcb |-> NULL, stcb |-> NULL,
            irq |-> FALSE, fresh |-> {}]

\* the memory an entry point leaves becomes the next state
Commit(m) ==
  /\ fuel > 0
  /\ fuel' = fuel - 1
  /\ holder' = m.holder
  /\ hhead' = m.hhead
  /\ g_holderalloc' = m.g_holderalloc
  /\ g_freeholders' = m.g_freeholders
  /\ tcb' = m.tcb
  /\ log' = m.log
  /\ degraded' = m.degraded
  /\ asserted' = m.asserted
  /\ UNCHANGED <<cfg_preallocholders, cfg_nnestprio, flags, live, pc>>

\* a build and the flags its semaphores were initialized with
InitBuildFlags(prealloc, nnest, calls, semflags) ==
  /\ cfg_preallocholders = prealloc
  /\ cfg_nnestprio = nnest
  /\ holder = [s \in Sems |-> [i \in 1..2 |-> EmptyHolder]]
  /\ hhead = [s \in Sems |-> NOHOLDER]
  /\ g_holderalloc = nxsem_initialize_holders(prealloc)
  /\ g_freeholders = IF prealloc > 0 THEN 1 ELSE NOHOLDER
  /\ flags = semflags
  /\ tcb = [t \in Threads |-> [sched_priority |-> InitPrio[t],
                               base_priority |-> InitPrio[t],
                               sem_boosts |-> <<>>]]
  /\ live = Threads
  /\ waiting = [t \in Threads |-> NotWaiting]
  /\ log = <<>>
  /\ degraded = FALSE
  /\ asserted = {}
  /\ trail = NoTrail
  /\ fuel = calls
  /\ pc = Idle

InitBuild(prealloc, nnest, calls) ==
  /\ InitBuildFlags(prealloc, nnest, calls, [s \in Sems |-> 0])
  /\ twin = NoTwin

\* the builds: inline or pooled holders; single boost, a ledger of one
\* record or a ledger of MAX_NEST records
Init ==
  \E prealloc \in {0, PREALLOC_HOLDERS}, nnest \in {0, 1, MAX_NEST} :
    InitBuild(prealloc, nnest, MaxOps)

\* nxsem_add_holder_tcb(htcb, sem), and nxsem_add_holder(sem) for htcb =
\* this_task(): a running thread takes a count nobody waits for, or a post
\* hands the count to the first waiter
add_holder(htcb, sem) ==
  /\ htcb \in live
  /\ IF waiting[htcb].sem = NULL THEN Waiters(sem) = {} ELSE TopWaiter(htcb, sem)
  /\ HeldOn(Mem(htcb), Sems) < MaxHeld
  /\ LET pholder == nxsem_findholder(Mem(htcb), sem, htcb) IN
       pholder # NOHOLDER => Holder(Mem(htcb), sem, pholder).counts < MaxCounts
  /\ Commit(nxsem_add_holder_tcb(Mem(htcb), htcb, sem))
  /\ twin' = IF ~twin.on THEN NoTwin
             ELSE Paired(nxsem_add_holder_tcb(TwinMem(htcb), htcb, sem))
  /\ trail' = NoTrail
  /\ UNCHANGED waiting

release_holder(rtcb, sem) ==
  /\ Running(rtcb)
  /\ Commit(nxsem_release_holder(Mem(rtcb), sem))
  /\ twin' = IF ~twin.on THEN NoTwin
             ELSE Paired(nxsem_release_holder(TwinMem(rtcb), sem))
  /\ trail' =
       LET pholder == nxsem_findholder(Mem(rtcb), sem, rtcb) IN
       IF pholder # NOHOLDER /\ Holder(Mem(rtcb), sem, pholder).counts > 0
       THEN [stage |-> "released", sem |-> sem, rtcb |-> rtcb, irq |-> FALSE,
             stcb |-> IF trail.stage = "boosted" /\ trail.sem = sem
                         /\ rtcb \in trail.fresh
                      THEN trail.stcb ELSE NULL,
             fresh |-> IF trail.stage = "boosted" /\ trail.sem = sem
                       THEN trail.fresh \cap {rtcb} ELSE {}]
       ELSE NoTrail
  /\ UNCHANGED waiting

\* the holders of sem that hold one count at their base priority, below the
\* priority of rtcb
Fresh(rtcb, sem) ==
  {t \in (HoldersOf(Mem(rtcb), sem) \cap live) \ {rtcb} :
     /\ Holder(Mem(rtcb), sem, nxsem_findholder(Mem(rtcb), sem, t)).counts = 1
     /\ tcb[t].sched_priority = tcb[t].base_priority
     /\ tcb[t].sem_boosts = <<>>
     /\ tcb[t].base_priority < tcb[rtcb].sched_priority}

\* nxsem_boost_priority(sem) by this_task() = rtcb, which then blocks on sem;
\* a wait on a semaphore that has priority inheritance and no holders visits
\* nothing and is left out, and so is a thread that waits for counts it holds
\* itself
boost_priority(rtcb, sem) ==
  /\ Running(rtcb)
  /\ HoldersOf(Mem(rtcb), sem) # {} \/ Disabled(sem)
  /\ rtcb \notin HoldersOf(Mem(rtcb), sem)
  /\ Commit(nxsem_boost_priority(Mem(rtcb), sem))
  /\ twin' = IF ~twin.on THEN NoTwin
             ELSE Paired(nxsem_boost_priority(TwinMem(rtcb), sem))
  /\ waiting' = [waiting EXCEPT ![rtcb] =
                   [sem |-> sem, priority |-> tcb[rtcb].sched_priority]]
  /\ trail' = IF Fresh(rtcb, sem) # {}
              THEN [stage |-> "boosted", sem |-> sem, rtcb |-> NULL, stcb |-> rtcb,
                    irq |-> FALSE, fresh |-> Fresh(rtcb, sem)]
              ELSE NoTrail

\* nxsem_restore_baseprio(stcb, sem) with this_task() = rtcb; stcb is NULL or
\* the waiter that got the count
restore_baseprio(rtcb, stcb, sem, irq) ==
  /\ Running(rtcb)
  /\ stcb # NULL => TopWaiter(stcb, sem)
  /\ Commit(nxsem_restore_baseprio(Mem(rtcb), stcb, sem, irq))
  /\ twin' = IF ~twin.on THEN NoTwin
             ELSE Paired(nxsem_restore_baseprio(TwinMem(rtcb), stcb, sem, irq))
  /\ waiting' = IF stcb # NULL THEN [waiting EXCEPT ![stcb] = NotWaiting] ELSE waiting
  /\ trail' = IF trail.stage = "released" /\ trail.sem = sem /\ trail.rtcb = rtcb
              THEN [stage |-> "restored", sem |-> sem, rtcb |-> rtcb, stcb |-> stcb,
                    irq |-> irq,
                    fresh |-> IF stcb # NULL /\ stcb = trail.stcb /\ ~irq
                              THEN trail.fresh ELSE {}]
              ELSE NoTrail

\* the wait of stcb on sem is canceled
canceled(stcb, sem) ==
  /\ stcb \in Waiters(sem)
  /\ Commit(nxsem_canceled(Mem(NULL), stcb, sem))
  /\ twin' = IF ~twin.on THEN NoTwin
             ELSE Paired(nxsem_canceled(TwinMem(NULL), stcb, sem))
  /\ waiting' = [waiting EXCEPT ![stcb] = NotWaiting]
  /\ trail' = NoTrail

destroy(sem) ==
  /\ Waiters(sem) = {}
  /\ Commit(nxsem_destroyholder(Mem(NULL), sem))
  /\ twin' = IF ~twin.on THEN NoTwin
             ELSE Paired(nxsem_destroyholder(TwinMem(NULL), sem))
  /\ trail' = NoTrail
  /\ UNCHANGED waiting

\* a thread that holds counts exits; its holders stay behind with a stale handle
thread_exit(t) ==
  /\ Running(t)
  /\ \E s \in Sems : t \in HoldersOf(Mem(t), s)
  /\ Cardinality(Threads \ live) < MaxDead
  /\ fuel > 0
  /\ fuel' = fuel - 1
  /\ live' = live \ {t}
  /\ log' = <<>>
  /\ asserted' = {}
  /\ trail' = NoTrail
  /\ UNCHANGED <<cfg_preallocholders, cfg_nnestprio, holder, hhead, g_holderalloc,
                 g_freeholders, flags, tcb, waiting, degraded, twin, pc>>

Next ==
  \/ \E t \in Threads, s \in Sems : add_holder(t, s)
  \/ \E t \in Threads, s \in Sems : release_holder(t, s)
  \/ \E t \in Threads, s \in Sems : boost_priority(t, s)
  \/ \E t \in Threads, st \in Threads \cup {NULL}, s \in Sems, irq \in BOOLEAN :
       restore_baseprio(t, st, s, irq)
  \/ \E st \in Threads, s \in Sems : canceled(st, s)
  \/ \E s \in Sems : destroy(s)
  \/ \E t \in Threads : thread_exit(t)

Spec == Init /\ [][Next]_vars

\* the builds with a boost ledger
InitNested ==
  \E prealloc \in {0, PREALLOC_HOLDERS}, nnest \in {1, MAX_NEST} :
    InitBuild(prealloc, nnest, MaxOps)

SpecNested == InitNested /\ [][Next]_vars

\* the inline builds, with two more calls
InitLong == \E nnest \in {0, MAX_NEST} : InitBuild(0, nnest, MaxOps + 2)

SpecLong == InitLong /\ [][Next]_vars

\* all builds, the first semaphore initialized without priority inheritance
InitNoInherit ==
  \E prealloc \in {0, PREALLOC_HOLDERS}, nnest \in {0, 1, MAX_NEST} :
    /\ InitBuildFlags(prealloc, nnest, MaxOps,
                      [s \in Sems |-> IF s = "semA"
                                      THEN PRIOINHERIT_FLAGS_DISABLE ELSE 0])
    /\ twin = NoTwin

SpecNoInherit == InitNoInherit /\ [][Next]_vars

\* the inline builds, each side by side with the pooled build of PairHolders
\* holders
InitPair ==
  \E nnest \in {0, 1, MAX_NEST} :
    /\ InitBuildFlags(0, nnest, MaxOps + 2, [s \in Sems |-> 0])
    /\ twin = [on |-> TRUE, holder |-> holder, hhead |-> hhead,
               g_holderalloc |-> nxsem_initialize_holders(PairHolders),
               g_freeholders |-> 1, tcb |-> tcb]

\* the calls of Next on one semaphore
NextPair ==
  \/ \E t \in Threads : add_holder(t, "semA")
  \/ \E t \in Threads : release_holder(t, "semA")
  \/ \E t \in Threads : boost_priority(t, "semA")
  \/ \E t \in Threads, st \in Threads \cup {NULL}, irq \in BOOLEAN :
       restore_baseprio(t, st, "semA", irq)
  \/ \E st \in Threads : canceled(st, "semA")
  \/ destroy("semA")
  \/ \E t \in Threads : thread_exit(t)

SpecPair == InitPair /\ [][NextPair]_vars

\* the inline builds, with one more call
InitDeep == \E nnest \in {0, 1, MAX_NEST} : InitBuild(0, nnest, MaxOps + 1)

SpecDeep == InitDeep /\ [][Next]_vars

\* the inline and the pooled holder store, each with a full ledger
InitStores ==
  \E prealloc \in {0, PREALLOC_HOLDERS} : InitBuild(prealloc, MAX_NEST, MaxOps)

SpecStores == InitStores /\ [][Next]_vars

(* ------------------------------------------------------------------ *)
(* What the properties talk about                                       *)
(* ------------------------------------------------------------------ *)

\* the memory of the current state
Now == Mem(NULL)

\* find(sem, t) and the counts it finds
Find(sem, t) == nxsem_findholder(Now, sem, t)

CountsOf(sem, t) ==
  IF Find(sem, t) = NOHOLDER THEN 0 ELSE Holder(Now, sem, Find(sem, t)).counts

\* the live threads with a holder on sem, and those that own counts
LiveHolders(sem) == HoldersOf(Now, sem) \cap live

Owners(sem) == {t \in LiveHolders(sem) : CountsOf(sem, t) > 0}

SetMax(S) == CHOOSE x \in S : \A y \in S : y <= x

BoostsOf(t) == {tcb[t].sem_boosts[i] : i \in 1..Len(tcb[t].sem_boosts)}

\* the calls of the log made by a handler whose name is in handlers
Did(call, handlers) ==
  {i \in 1..Len(log) : log[i].call = call /\ log[i].by \in handlers}

BoostHandlers == {"nxsem_boostholderprio"}

RestoreHandlers ==
  {"nxsem_restoreholderprioall", "nxsem_restoreholderprio_others",
   "nxsem_restoreholderprio_self"}

(* ------------------------------------------------------------------ *)
(* Properties                                                           *)
(* ------------------------------------------------------------------ *)

\* C1: while a thread W is blocked on sem (it called boost_priority(sem) and
\* was neither handed the count nor canceled since), every live thread that
\* owns counts on sem runs at least at the priority W blocked with, as long as
\* no holder and no boost slot ever ran out.
C1_NoInversion ==
  ~degraded =>
    \A s \in Sems : \A w \in Waiters(s) : \A h \in Owners(s) :
      tcb[h].sched_priority >= waiting[w].priority

\* C2: in the nested build every live thread runs at the maximum of its base
\* priority and the priorities of the records of its boost ledger.
C2_LedgerMax ==
  Nested =>
    \A t \in live :
      tcb[t].sched_priority =
        SetMax({tcb[t].base_priority} \cup {b.priority : b \in BoostsOf(t)})

\* a restore lowered a thread to the level of a boost it still has
C2_Witness ==
  /\ Nested
  /\ \E i \in Did("nxsched_set_priority", RestoreHandlers) :
       /\ tcb[log[i].tcb].sem_boosts # <<>>
       /\ tcb[log[i].tcb].sched_priority > tcb[log[i].tcb].base_priority

\* C3: no thread ever runs below its base priority, in every build.
C3_NotBelowBase ==
  \A t \in Threads : tcb[t].sched_priority >= tcb[t].base_priority

\* a restore has just taken a boosted thread back to its base priority
C3_Witness ==
  \E i \in Did("nxsched_set_priority", RestoreHandlers)
             \cup Did("nxsched_reprioritize", RestoreHandlers) :
    /\ log[i].prio = tcb[log[i].tcb].base_priority
    /\ tcb[log[i].tcb].sched_priority = tcb[log[i].tcb].base_priority

\* C4: in both storage regimes no two holders of one semaphore refer to the
\* same thread.
C4_HolderUnique ==
  \A s \in Sems :
    LET ptrs == HolderPtrs(Now, s) IN
    \A i, j \in 1..Len(ptrs) :
      (i # j /\ Holder(Now, s, ptrs[i]).htcb # NULL)
        => Holder(Now, s, ptrs[i]).htcb # Holder(Now, s, ptrs[j]).htcb

\* a semaphore with two holders, one of them found again by a second add_holder
C4_Witness ==
  \E s \in Sems : \E t, u \in Threads :
    /\ t # u
    /\ CountsOf(s, t) = 2
    /\ CountsOf(s, u) >= 1

\* C5: when thread t has released its last count on sem and the
\* restore_baseprio of that post has run with this_task() = t, in task or in
\* interrupt context and with any stcb, find(sem, t) is none.
C5_FreedAfterRestore ==
  (trail.stage = "restored" /\ CountsOf(trail.sem, trail.rtcb) = 0)
    => Find(trail.sem, trail.rtcb) = NOHOLDER

\* C6: after release_holder(sem) and, in task context, restore_baseprio(none,
\* sem) by the same thread, with no other holder and no waiter on sem, every
\* holder of sem is at its base priority.
C6_HoldersAtBase ==
  (/\ trail.stage = "restored"
   /\ ~trail.irq
   /\ trail.stcb = NULL
   /\ Waiters(trail.sem) = {}
   /\ HoldersOf(Now, trail.sem) \subseteq {trail.rtcb})
    => \A h \in LiveHolders(trail.sem) :
         tcb[h].sched_priority = tcb[h].base_priority

\* the priority a holder of sem is left with when waiter c goes away: the
\* highest priority among the waiters still blocked on sem, its base priority
\* if there is none
NextLevel(h, sem, c) ==
  SetMax({tcb[h].base_priority}
           \cup {waiting[w].priority : w \in Waiters(sem) \ {c}})

\* h owns counts on sem and runs at the priority of the highest waiter of sem,
\* above its base priority, and nobody is blocked on another semaphore
BoostedByWaiters(h, sem) ==
  /\ h \in Owners(sem)
  /\ Waiters(sem) # {}
  /\ \A t \in Threads : waiting[t].sem \in {NULL, sem}
  /\ tcb[h].sched_priority > tcb[h].base_priority
  /\ tcb[h].sched_priority = SetMax({waiting[w].priority : w \in Waiters(sem)})

\* C7: when a holder was boosted by the waiters of sem, no holder and no boost
\* slot ever ran out, and waiter c is canceled, the holder is left at its base
\* priority if c was the only waiter and at the highest priority of the
\* waiters still blocked otherwise.
C7_CancelNextLevel ==
  [][\A c \in Threads, s \in Sems :
       (~degraded /\ canceled(c, s)) =>
         \A h \in Threads :
           BoostedByWaiters(h, s) =>
             tcb'[h].sched_priority = NextLevel(h, s, c)]_vars

\* C8: a thread at base priority with one count on sem that is boosted by a
\* higher waiter H and then calls release_holder(sem) and, in task context,
\* restore_baseprio(H, sem), is back at its base priority, has no holder on
\* sem and no boost record of sem.
C8_RoundTrip ==
  (trail.stage = "restored" /\ trail.fresh # {})
    => \A t \in trail.fresh :
         /\ tcb[t].sched_priority = tcb[t].base_priority
         /\ Find(trail.sem, t) = NOHOLDER
         /\ \A b \in BoostsOf(t) : b.sem # trail.sem

\* the round trip has been completed in the nested build
C8_Witness ==
  /\ trail.stage = "restored"
  /\ trail.fresh # {}
  /\ Nested
  /\ Did("nxsched_set_priority", {"nxsem_restoreholderprio_self"}) # {}

\* C9: boost_priority(sem) by thread R leaves every live holder of sem at the
\* maximum of its priority before the call and the priority of R (in the
\* nested build if its ledger was not full); no priority goes down.  The step
\* of boost_priority(r, s) is the one that blocks r on s.
C9_BoostPost ==
  [][\A r \in Threads, s \in Sems :
       (waiting[r].sem = NULL /\ waiting'[r].sem = s) =>
         \A h \in LiveHolders(s) :
           /\ tcb'[h].sched_priority >= tcb[h].sched_priority
           /\ (Nested => Len(tcb[h].sem_boosts) < cfg_nnestprio)
                => tcb'[h].sched_priority =
                     Max(tcb[h].sched_priority, tcb[r].sched_priority)]_vars

\* a boost has just raised a holder
C9_Witness ==
  \E i \in Did("nxsched_set_priority", BoostHandlers) :
    tcb[log[i].tcb].sched_priority = log[i].prio

\* C10: boost_priority, restore_baseprio with a waiter and canceled leave no
\* holder of sem with a stale handle, and their handlers read no field of and
\* make no scheduler call on a stale handle: whatever they did to a thread
\* other than finding it stale, they did to a live one.
C10_StaleNotTouched ==
  \A i \in 1..Len(log) :
    log[i].by \in BoostHandlers \cup RestoreHandlers =>
      /\ HoldersOf(Now, log[i].sem) \subseteq live
      /\ log[i].call = "stale" => log[i].tcb \notin live
      /\ log[i].call # "stale" => log[i].tcb \in live

\* a stale handle has just been found and its holder freed
C10_Witness ==
  \E i \in 1..Len(log) :
    /\ log[i].call = "stale"
    /\ log[i].tcb \notin live
    /\ Find(log[i].sem, log[i].tcb) = NOHOLDER

(* ------------------------------------------------------------------ *)
(* Properties of the ledger, the two passes and the interrupt path      *)
(* ------------------------------------------------------------------ *)

\* how often record r is in a ledger
Count(boosts, r) == Cardinality({i \in 1..Len(boosts) : boosts[i] = r})

\* the records a ledger can hold
Records == [sem : Sems, priority : {InitPrio[t] : t \in Threads}]

\* the record of sem with the highest priority in a ledger that has one
TopRecord(boosts, sem) ==
  [sem |-> sem,
   priority |-> SetMax({boosts[i].priority :
                          i \in {k \in 1..Len(boosts) : boosts[k].sem = sem}})]

\* the step restored thread t for sem: a restore handler read its fields
RestoredFor(t, sem) ==
  \E i \in 1..Len(log') :
    /\ log'[i].by \in RestoreHandlers
    /\ log'[i].call = "deref"
    /\ log'[i].tcb = t
    /\ log'[i].sem = sem

\* C11: in the nested build, when a thread that still holds counts on sem is
\* restored for sem by restore_baseprio with a waiter or by canceled, its
\* ledger loses exactly one record, the record of sem with the highest
\* priority (none if it has no record of sem), keeps every other record, and
\* the thread runs at the maximum of its base priority and the records left.
C11_OneRecordRemoved ==
  [][\A t \in Threads, s \in Sems :
       (Nested /\ CountsOf(s, t) > 0 /\ RestoredFor(t, s)) =>
         LET old == tcb[t].sem_boosts
             new == tcb'[t].sem_boosts
             has == \E b \in BoostsOf(t) : b.sem = s
         IN /\ \A r \in Records :
                 Count(new, r) =
                   IF has /\ r = TopRecord(old, s)
                   THEN Count(old, r) - 1 ELSE Count(old, r)
            /\ tcb'[t].sched_priority =
                 SetMax({tcb[t].base_priority}
                          \cup {new[i].priority : i \in 1..Len(new)})]_vars

\* a restore for one semaphore has lowered a thread that still holds counts
\* on it to the level of the record it keeps for another semaphore
C11_Witness ==
  /\ Nested
  /\ \E i \in Did("nxsched_set_priority", RestoreHandlers) :
       LET t == log[i].tcb IN
       /\ CountsOf(log[i].sem, t) > 0
       /\ tcb[t].sem_boosts # <<>>
       /\ \A b \in BoostsOf(t) : b.sem # log[i].sem
       /\ tcb[t].sched_priority = log[i].prio
       /\ tcb[t].sched_priority > tcb[t].base_priority

\* the scheduler calls
SchedCalls == {"nxsched_set_priority", "nxsched_reprioritize"}

\* C12: in the inline build, when restore_baseprio in task context with a
\* waiter reprioritizes the running thread whose count on sem has dropped to
\* zero, the slot of that thread is free at the moment of the scheduler call:
\* a holder allocation for another thread at that point finds a slot.
C12_SlotFreeBeforeSelf ==
  \A i \in 1..Len(log) :
    (/\ ~Pooled
     /\ log[i].by = "nxsem_restoreholderprio_self"
     /\ log[i].call \in SchedCalls
     /\ Find(log[i].sem, log[i].tcb) = NOHOLDER)
    => /\ log[i].tcb = log[i].task
       /\ log[i].slot # NOHOLDER

\* the running thread was reprioritized in its own pass while the other slot
\* of the semaphore was held by a live thread: both slots were taken on entry
C12_Witness ==
  /\ ~Pooled
  /\ \E i \in 1..Len(log) :
       /\ log[i].by = "nxsem_restoreholderprio_self"
       /\ log[i].call \in SchedCalls
       /\ Find(log[i].sem, log[i].tcb) = NOHOLDER
       /\ \E p \in {1, 2} :
            /\ holder[log[i].sem][p].htcb \in live \ {log[i].tcb}
            /\ holder[log[i].sem][p].counts > 0

\* two memories with the same holder store, priorities and ledgers
SameStore(a, b) ==
  /\ a.holder = b.holder
  /\ a.hhead = b.hhead
  /\ a.g_holderalloc = b.g_holderalloc
  /\ a.g_freeholders = b.g_freeholders
  /\ a.tcb = b.tcb

\* the threads a handler was run on
Visited(m, handler) ==
  {m.log[i].tcb : i \in {k \in 1..Len(m.log) : m.log[k].by = handler}}

\* C13: restore_baseprio with a waiter in interrupt context runs the restore
\* of one holder on every holder of sem, and the holder store, the priorities
\* and the ledgers it leaves do not depend on the thread this_task() reports.
C13_IrqRestoreAll ==
  \A s \in Sems, stcb \in Threads :
    TopWaiter(stcb, s) =>
      \A r1 \in Threads :
        LET a == nxsem_restore_baseprio(Mem(r1), stcb, s, TRUE) IN
        /\ HoldersOf(Now, s) \subseteq Visited(a, "nxsem_restoreholderprioall")
        /\ \A r2 \in Threads \ {r1} :
             SameStore(a, nxsem_restore_baseprio(Mem(r2), stcb, s, TRUE))

\* a restore in interrupt context has visited two holders, the interrupted
\* thread among them, and changed a priority
C13_Witness ==
  \E i, j \in 1..Len(log) :
    /\ log[i].by = "nxsem_restoreholderprioall"
    /\ log[j].by = "nxsem_restoreholderprioall"
    /\ log[i].task # NULL
    /\ log[i].tcb = log[i].task
    /\ log[j].tcb # log[i].tcb
    /\ log[j].call \in SchedCalls

\* the handlers of the two passes of restore_baseprio in task context
TaskHandlers == {"nxsem_restoreholderprio_others", "nxsem_restoreholderprio_self"}

\* C14: within one restore_baseprio call in task context with a waiter, every
\* scheduler call on a holder other than the running thread comes before any
\* scheduler call on the running thread, in both storage regimes.
C14_OthersBeforeSelf ==
  \A i, j \in 1..Len(log) :
    (/\ log[i].by \in TaskHandlers
     /\ log[j].by \in TaskHandlers
     /\ log[i].call \in SchedCalls
     /\ log[j].call \in SchedCalls
     /\ log[i].tcb # log[i].task
     /\ log[j].tcb = log[j].task)
    => i < j

\* one call has reprioritized another holder and then the running thread
C14_Witness ==
  \E i, j \in 1..Len(log) :
    /\ i < j
    /\ log[i].by \in TaskHandlers
    /\ log[j].by \in TaskHandlers
    /\ log[i].call \in SchedCalls
    /\ log[j].call \in SchedCalls
    /\ log[i].tcb # log[i].task
    /\ log[j].tcb = log[j].task

StoreFull(sem) ==
  IF Pooled THEN g_freeholders = NOHOLDER
  ELSE holder[sem][1].htcb # NULL /\ holder[sem][2].htcb # NULL

\* C17: add_holder for a thread that has no entry on sem, when no slot is
\* available, returns normally in every build (no assertion of the call is
\* false) and leaves every holder entry, the free list, every priority and
\* every ledger unchanged.
C17_FullStoreAdd ==
  \A t \in live, s \in Sems :
    (Find(s, t) = NOHOLDER /\ StoreFull(s)) =>
      LET a == nxsem_add_holder_tcb(Mem(t), t, s) IN
      /\ SameStore(a, Now)
      /\ a.asserted = {}

\* C18: in the nested build, boost_priority adds no record for a holder
\* whose ledger already has CONFIG_SEM_NNESTPRIO records and leaves its
\* sched_priority unchanged, while the other holders of the semaphore get
\* their record; no ledger ever holds more than CONFIG_SEM_NNESTPRIO records.
C18_FullLedger ==
  [][Nested =>
       /\ \A t \in Threads : Len(tcb'[t].sem_boosts) <= cfg_nnestprio
       /\ \A r \in Threads, s \in Sems :
            (waiting[r].sem = NULL /\ waiting'[r].sem = s) =>
              \A h \in LiveHolders(s) :
                IF Len(tcb[h].sem_boosts) = cfg_nnestprio
                THEN tcb'[h] = tcb[h]
                ELSE tcb[r].sched_priority > tcb[h].base_priority =>
                       /\ tcb'[h].sem_boosts =
                            Append(tcb[h].sem_boosts,
                                   [sem |-> s, priority |-> tcb[r].sched_priority])
                       /\ tcb'[h].sched_priority =
                            Max(tcb[h].sched_priority, tcb[r].sched_priority)]_vars

\* one boost_priority call found the ledger of one holder full, left it as it
\* was, and raised another holder of the semaphore
C18_Witness ==
  /\ Nested
  /\ \E i, j \in 1..Len(log) :
       LET h == log[i].tcb
           w == log[i].task
       IN /\ log[i].by = "nxsem_boostholderprio"
          /\ log[i].call = "deref"
          /\ Len(tcb[h].sem_boosts) = cfg_nnestprio
          /\ waiting[w].sem = log[i].sem
          /\ waiting[w].priority > tcb[h].base_priority
          /\ \A b \in BoostsOf(h) : b.sem # log[i].sem
          /\ tcb[h].sched_priority < waiting[w].priority
          /\ log[j].by = "nxsem_boostholderprio"
          /\ log[j].call = "nxsched_set_priority"
          /\ log[j].tcb # h

\* find and the counts of thread t on sem in a memory
Entry(m, sem, t) ==
  LET pholder == nxsem_findholder(m, sem, t) IN
  [found |-> pholder # NOHOLDER,
   counts |-> IF pholder = NOHOLDER THEN 0 ELSE Holder(m, sem, pholder).counts]

\* C19: for one semaphore and a pooled build of two holders, the inline and
\* the pooled holder store driven by the same add_holder, release_holder,
\* boost_priority, restore_baseprio, canceled and destroy calls agree, for
\* every thread, on whether find(sem, t) finds a holder, on its counts, and
\* on the sched_priority and the ledger of the thread.
C19_RegimesAgree ==
  twin.on =>
    \A t \in Threads :
      /\ Entry(Now, "semA", t) = Entry(TwinMem(NULL), "semA", t)
      /\ tcb[t].sched_priority = twin.tcb[t].sched_priority
      /\ tcb[t].sem_boosts = twin.tcb[t].sem_boosts

\* both stores hold two holders, in different order, one of them boosted
C19_Witness ==
  /\ twin.on
  /\ holder["semA"][1].htcb # NULL
  /\ holder["semA"][2].htcb # NULL
  /\ twin.g_holderalloc[twin.hhead["semA"]].htcb = holder["semA"][2].htcb
  /\ \E t \in Threads : tcb[t].sched_priority > tcb[t].base_priority

\* every holder entry: the slots of every semaphore, or the nodes of the pool
Entries ==
  IF Pooled
  THEN {[htcb |-> g_holderalloc[p].htcb, counts |-> g_holderalloc[p].counts] :
          p \in DOMAIN g_holderalloc}
  ELSE {holder[s][i] : s \in Sems, i \in 1..2}

\* C20: after every completed public operation, every holder slot or node
\* with counts > 0 has its htcb set, and every slot or node whose htcb is set
\* has counts > 0 (the entry release_holder has brought to zero counts is
\* looked at once the restore_baseprio of the same post has run).
C20_EntryLive ==
  /\ \A e \in Entries : e.counts > 0 => e.htcb # NULL
  /\ trail.stage = "restored" =>
       \A i \in 1..Len(HolderPtrs(Now, trail.sem)) :
         LET e == Holder(Now, trail.sem, HolderPtrs(Now, trail.sem)[i]) IN
         e.htcb = trail.rtcb => e.counts > 0

(* ------------------------------------------------------------------ *)
(* Frame conditions, iteration and the pool                             *)
(* ------------------------------------------------------------------ *)

\* C21: release_holder(sem) by the running thread lowers the counts of its
\* entry on sem by one when the entry exists with counts > 0 and changes
\* nothing otherwise; it frees or unlinks no entry, makes no counts negative
\* and changes no priority and no ledger.
C21_ReleaseOnly ==
  \A r \in Threads, s \in Sems :
    Running(r) =>
      LET a == nxsem_release_holder(Mem(r), s) IN
      /\ a.tcb = tcb
      /\ a.hhead = hhead
      /\ a.g_freeholders = g_freeholders
      /\ \A p \in DOMAIN g_holderalloc :
           /\ a.g_holderalloc[p].flink = g_holderalloc[p].flink
           /\ a.g_holderalloc[p].htcb = g_holderalloc[p].htcb
           /\ a.g_holderalloc[p].counts >= 0
      /\ \A s2 \in Sems, i \in 1..2 :
           /\ a.holder[s2][i].htcb = holder[s2][i].htcb
           /\ a.holder[s2][i].counts >= 0
      /\ \A s2 \in Sems, t \in Threads :
           /\ nxsem_findholder(a, s2, t) = Find(s2, t)
           /\ Entry(a, s2, t).counts =
                IF s2 = s /\ t = r /\ CountsOf(s, r) > 0
                THEN CountsOf(s, r) - 1 ELSE CountsOf(s2, t)

\* a boosted thread has released its last count: its entry is still there
\* with zero counts and it still runs boosted
C21_Witness ==
  /\ trail.stage = "released"
  /\ Find(trail.sem, trail.rtcb) # NOHOLDER
  /\ CountsOf(trail.sem, trail.rtcb) = 0
  /\ tcb[trail.rtcb].sched_priority > tcb[trail.rtcb].base_priority

\* the handlers nxsem_foreachholder is called with
Handlers ==
  {"nxsem_boostholderprio", "nxsem_restoreholderprioall",
   "nxsem_restoreholderprio_others", "nxsem_restoreholderprio_self",
   "nxsem_recoverholders", "nxsem_verifyholder"}

\* the calls of v that returned nonzero
Nonzero(v) == {i \in 1..Len(v) : v[i].ret # 0}

\* C22: nxsem_foreachholder returns the first nonzero result its handler
\* produced (zero when there was none) and calls the handler on no further
\* entry after that result, in the inline and in the pooled build.
C22_FirstNonzero ==
  \A r \in Threads, s \in Sems, handler \in Handlers :
    Running(r) =>
      LET res == nxsem_foreachholder(Mem(r), s, handler, r)
          v == res.m.visits
      IN IF Nonzero(v) = {} THEN res.ret = 0
         ELSE LET k == CHOOSE i \in Nonzero(v) : \A j \in Nonzero(v) : i <= j
              IN res.ret = v[k].ret /\ Len(v) = k

\* C23: in the pooled build, also when the handler frees the holder it is
\* called on (a stale holder in boost or restore, every holder in destroy),
\* nxsem_foreachholder calls the handler once on every holder that was on the
\* list of sem when it started, in list order, and on no node of the free
\* list.
C23_FreeingTolerated ==
  Pooled =>
    \A r \in Threads, s \in Sems,
       handler \in Handlers \ {"nxsem_restoreholderprio_self"} :
      Running(r) =>
        LET v == nxsem_foreachholder(Mem(r), s, handler, r).m.visits IN
        [i \in 1..Len(v) |-> v[i].pholder] = ListFrom(Now, hhead[s])

\* in the pooled build a handler has found a holder stale and freed it, and
\* has then run on the next holder of the list
C23_Witness ==
  /\ Pooled
  /\ \E i, j \in 1..Len(log) :
       /\ i < j
       /\ log[i].call = "stale"
       /\ Find(log[i].sem, log[i].tcb) = NOHOLDER
       /\ log[j].call = "deref"
       /\ log[j].sem = log[i].sem

\* C24: in the nested build, when a boosted thread is restored for sem and
\* has no entry on sem or an entry with zero counts, every record of sem
\* leaves its ledger, wherever the records are, and its records of other
\* semaphores stay, each as often as before.
C24_AllRecordsRemoved ==
  \A r \in Threads, t \in Threads, s \in Sems :
    (/\ Nested
     /\ Running(r)
     /\ nxsched_verify_tcb(t)
     /\ CountsOf(s, t) = 0
     /\ tcb[t].sched_priority # tcb[t].base_priority)
    => LET m == [Mem(r) EXCEPT !.sem = s,
                               !.handler = "nxsem_restoreholderprioall"]
           a == nxsem_restoreholderprio(m, t, s, 0).m
       IN \A b \in Records :
         Count(a.tcb[t].sem_boosts, b) =
           IF b.sem = s THEN 0 ELSE Count(tcb[t].sem_boosts, b)

\* a thread that gave up its counts on a semaphore has been restored for it:
\* its entry is gone, its ledger holds no record of the semaphore and the
\* restore changed its priority
C24_Witness ==
  /\ Nested
  /\ \E i \in 1..Len(log) :
       LET t == log[i].tcb IN
       /\ log[i].by \in RestoreHandlers
       /\ log[i].call \in SchedCalls
       /\ Find(log[i].sem, t) = NOHOLDER
       /\ \A b \in BoostsOf(t) : b.sem # log[i].sem
       /\ tcb[t].sched_priority = log[i].prio

\* the memories the public operations on sem leave when they are called in
\* the current state
OpsOn(sem) ==
  {nxsem_add_holder_tcb(Mem(t), t, sem) :
     t \in {x \in live : IF waiting[x].sem = NULL THEN Waiters(sem) = {}
                                                 ELSE TopWaiter(x, sem)}}
  \cup {nxsem_release_holder(Mem(r), sem) : r \in {x \in Threads : Running(x)}}
  \cup {nxsem_boost_priority(Mem(r), sem) : r \in {x \in Threads : Running(x)}}
  \cup {nxsem_restore_baseprio(Mem(c[1]), c[2], sem, c[3]) :
          c \in {x \in Threads \X (Threads \cup {NULL}) \X BOOLEAN :
                   Running(x[1]) /\ (x[2] # NULL => TopWaiter(x[2], sem))}}
  \cup {nxsem_canceled(Mem(NULL), stcb, sem) : stcb \in Waiters(sem)}
  \cup (IF Waiters(sem) = {} THEN {nxsem_destroyholder(Mem(NULL), sem)} ELSE {})

\* the entries of sem that name a thread
HeldBy(m, sem) ==
  {e \in {Holder(m, sem, HolderPtrs(m, sem)[i]) : i \in 1..Len(HolderPtrs(m, sem))} :
     e.htcb # NULL}

\* C25: add_holder, release_holder, boost_priority, restore_baseprio, canceled
\* and destroy on one semaphore leave the holders of every other semaphore
\* as they are, threads and counts, in the inline and in the pooled builds.
C25_OtherSemsUntouched ==
  \A s \in Sems : \A a \in OpsOn(s) : \A s2 \in Sems \ {s} :
    HeldBy(a, s2) = HeldBy(Now, s2)

\* pooled build: boost_priority on one semaphore has raised a holder of it
\* while another semaphore, whose nodes come from the same pool, has holders
C25_Witness ==
  /\ Pooled
  /\ \E i \in Did("nxsched_set_priority", BoostHandlers) :
       \E s2 \in Sems \ {log[i].sem} : HeldBy(Now, s2) # {}

\* the nodes a walk along flink from p meets in its first n steps
RECURSIVE Walk(_, _, _)
Walk(m, p, n) ==
  IF p = NOHOLDER \/ n = 0 THEN <<>>
  ELSE <<p>> \o Walk(m, m.g_holderalloc[p].flink, n - 1)

\* the walk along the free list and along the list of every semaphore, each
\* cut off one step after the number of nodes of the pool
Lists(m) ==
  LET n == Cardinality(DOMAIN m.g_holderalloc) + 1 IN
  [l \in Sems \cup {"g_freeholders"} |->
     IF l = "g_freeholders" THEN Walk(m, m.g_freeholders, n)
     ELSE Walk(m, m.hhead[l], n)]

\* every node of the pool is on exactly one list at exactly one place, which
\* leaves no room for a cycle, and the lengths of the lists add up to the
\* number of nodes
Conserved(m) ==
  LET lists == Lists(m)
      places(p) == {<<l, i>> \in (DOMAIN lists) \X (1..(Cardinality(DOMAIN m.g_holderalloc) + 1)) :
                      i <= Len(lists[l]) /\ lists[l][i] = p}
      RECURSIVE Total(_)
      Total(ls) == IF ls = {} THEN 0
                   ELSE LET l == CHOOSE x \in ls : TRUE
                        IN Len(lists[l]) + Total(ls \ {l})
  IN /\ \A p \in DOMAIN m.g_holderalloc : Cardinality(places(p)) = 1
     /\ Total(DOMAIN lists) = Cardinality(DOMAIN m.g_holderalloc)

DiscardStep_keep(boosts, i, sem) ==
  IF boosts[i].sem = sem
  THEN [boosts |-> [boosts EXCEPT ![i] = boosts[Len(boosts)]], i |-> i]
  ELSE [boosts |-> boosts, i |-> i + 1]

\* one iteration of the loop that discards the boosts of sem: a boost of sem
\* is replaced by the last one, nsem_boosts-- and i-- undo the i++ of the
\* loop; any other boost is stepped over
DiscardStep(boosts, i, sem) ==
  IF boosts[i].sem = sem
  THEN [boosts |-> RemoveBoost(boosts, i), i |-> i]
  ELSE [boosts |-> boosts, i |-> i + 1]

\* a loop leaves the program state alone until the entry point it belongs to
\* is complete
LoopFrame ==
  UNCHANGED <<cfg_preallocholders, cfg_nnestprio, holder, hhead, g_holderalloc,
              g_freeholders, flags, tcb, live, waiting, log, degraded, asserted,
              twin, trail, fuel>>

\* the entry point whose loops are stepped through is the last of the run:
\* the history of the calls before it is dropped
LastCall ==
  /\ fuel' = 0
  /\ log' = <<>>
  /\ degraded' = FALSE
  /\ asserted' = {}
  /\ trail' = NoTrail
  /\ UNCHANGED <<cfg_preallocholders, cfg_nnestprio, holder, hhead, g_holderalloc,
                 g_freeholders, flags, tcb, live, waiting, twin>>

\* nxsem_restoreholderprio reaches the discard loop for a boosted thread htcb
\* that has no holder on sem or one with zero counts
enter_discard(htcb, sem) ==
  /\ pc.loop = "none"
  /\ Nested
  /\ nxsched_verify_tcb(htcb)
  /\ LET m == Now IN
       /\ m.tcb[htcb].sched_priority # m.tcb[htcb].base_priority
       /\ Entry(m, sem, htcb).counts = 0
       /\ pc' = [loop |-> "discard", sem |-> sem, from |-> m.tcb[htcb].sem_boosts,
                 boosts |-> m.tcb[htcb].sem_boosts, i |-> 1]
  /\ LastCall

step_discard ==
  /\ pc.loop = "discard"
  /\ pc' = IF pc.i <= Len(pc.boosts)
           THEN LET r == DiscardStep(pc.boosts, pc.i, pc.sem)
                IN [pc EXCEPT !.boosts = r.boosts, !.i = r.i]
           ELSE Idle
  /\ LoopFrame

\* nxsem_freeholder looks for pholder, a holder of sem, on the list of sem
enter_freeholder(sem, pholder) ==
  /\ pc.loop = "none"
  /\ Pooled
  /\ LET m == Now IN
       /\ \E k \in 1..Len(ListFrom(m, m.hhead[sem])) :
            ListFrom(m, m.hhead[sem])[k] = pholder
       /\ pc' = [loop |-> "freeholder", m |-> m, sem |-> sem, pholder |-> pholder,
                 prev |-> NOHOLDER, curr |-> m.hhead[sem]]
  /\ LastCall

step_freeholder ==
  /\ pc.loop = "freeholder"
  /\ pc' = IF pc.curr # NOHOLDER /\ pc.curr # pc.pholder
           THEN [pc EXCEPT !.prev = pc.curr,
                           !.curr = pc.m.g_holderalloc[pc.curr].flink]
           ELSE Idle
  /\ LoopFrame

\* nxsem_findholder looks for htcb on the list of sem; on an empty list no
\* loop is entered
enter_findholder(sem, htcb) ==
  /\ pc.loop = "none"
  /\ Pooled
  /\ hhead[sem] # NOHOLDER
  /\ LET m == Now IN
       pc' = [loop |-> "findholder", m |-> m, sem |-> sem, htcb |-> htcb,
              pholder |-> m.hhead[sem]]
  /\ LastCall

step_findholder ==
  /\ pc.loop = "findholder"
  /\ pc' = IF pc.pholder # NOHOLDER /\ pc.m.g_holderalloc[pc.pholder].htcb # pc.htcb
           THEN [pc EXCEPT !.pholder = pc.m.g_holderalloc[pc.pholder].flink]
           ELSE Idle
  /\ LoopFrame

\* the entry points call nxsem_foreachholder(sem, handler, arg) with
\* this_task() = rtcb: boost_priority by a running thread that holds no count
\* of sem, restore_baseprio in task context with a waiter, restore_baseprio in
\* interrupt context with a waiter or canceled, destroy with no waiter,
\* restore_baseprio without a waiter
Calls(rtcb, sem, handler) ==
  CASE handler = "nxsem_boostholderprio" ->
         Running(rtcb) /\ rtcb \notin HoldersOf(Now, sem)
    [] handler \in TaskHandlers -> Running(rtcb) /\ Waiters(sem) # {}
    [] handler = "nxsem_restoreholderprioall" -> rtcb = NULL /\ Waiters(sem) # {}
    [] handler = "nxsem_recoverholders" -> rtcb = NULL /\ Waiters(sem) = {}
    [] handler = "nxsem_verifyholder" -> rtcb = NULL

\* nxsem_foreachholder(sem, handler, arg) starts; on an empty list no loop is
\* entered
enter_foreach(rtcb, sem, handler) ==
  /\ pc.loop = "none"
  /\ Pooled
  /\ hhead[sem] # NOHOLDER
  /\ Calls(rtcb, sem, handler)
  /\ pc' = [loop |-> "foreach", from |-> Mem(rtcb), m |-> Mem(rtcb), sem |-> sem,
            handler |-> handler, arg |-> rtcb, pholder |-> hhead[sem], ret |-> 0]
  /\ LastCall

\* one iteration of the pooled loop of nxsem_foreachholder: next is read
\* first, then the handler runs
step_foreach ==
  /\ pc.loop = "foreach"
  /\ pc' = IF pc.pholder # NOHOLDER /\ pc.ret = 0
           THEN LET next == pc.m.g_holderalloc[pc.pholder].flink
                    r == IF pc.m.g_holderalloc[pc.pholder].htcb # NULL
                         THEN CallHandler(pc.handler, pc.m, pc.pholder, pc.sem, pc.arg)
                         ELSE Ret(pc.m, pc.ret)
                IN [pc EXCEPT !.m = r.m, !.pholder = next, !.ret = r.ret]
           ELSE Idle
  /\ LoopFrame

\* nxsem_nfreeholders counts the holders of the free list
enter_nfreeholders ==
  /\ pc.loop = "none"
  /\ Pooled
  /\ pc' = [loop |-> "nfreeholders", pholder |-> g_freeholders, n |-> 0]
  /\ LastCall

step_nfreeholders ==
  /\ pc.loop = "nfreeholders"
  /\ pc' = IF pc.pholder # NOHOLDER
           THEN [pc EXCEPT !.pholder = g_holderalloc[pc.pholder].flink,
                           !.n = pc.n + 1]
           ELSE Idle
  /\ LoopFrame

\* the next iteration, or the exit, of the loop in progress
LoopStep ==
  \/ step_discard
  \/ step_freeholder
  \/ step_findholder
  \/ step_foreach
  \/ step_nfreeholders

\* entry points between loops, and loops one iteration at a time
NextSteps ==
  \/ pc.loop = "none" /\ Next
  \/ \E t \in Threads, s \in Sems : enter_discard(t, s)
  \/ \E s \in Sems, p \in 1..cfg_preallocholders : enter_freeholder(s, p)
  \/ \E s \in Sems, t \in Threads : enter_findholder(s, t)
  \/ \E t \in Threads \cup {NULL}, s \in Sems, handler \in Handlers :
       enter_foreach(t, s, handler)
  \/ enter_nfreeholders
  \/ LoopStep

\* the pooled build with a full ledger
InitSteps == InitBuild(PREALLOC_HOLDERS, MAX_NEST, MaxOps)

\* the entry points run with the scheduler locked: the loop in progress is
\* not preempted for ever
SpecSteps == InitSteps /\ [][NextSteps]_vars /\ WF_vars(LoopStep)

\* a loop that has reached its exit has computed what the entry points use
LoopResult ==
  /\ (pc.loop = "discard" /\ pc.i > Len(pc.boosts))
       => pc.boosts = DiscardBoosts(pc.from, 1, pc.sem)
  /\ (pc.loop = "freeholder" /\ (pc.curr = NOHOLDER \/ pc.curr = pc.pholder))
       => [prev |-> pc.prev, found |-> pc.curr # NOHOLDER]
            = FindPrev(pc.m, NOHOLDER, pc.m.hhead[pc.sem], pc.pholder)
  /\ (pc.loop = "findholder"
       /\ (pc.pholder = NOHOLDER \/ pc.m.g_holderalloc[pc.pholder].htcb = pc.htcb))
       => pc.pholder = nxsem_findholder(pc.m, pc.sem, pc.htcb)
  /\ (pc.loop = "foreach" /\ (pc.pholder = NOHOLDER \/ pc.ret # 0))
       => Ret(pc.m, pc.ret) = nxsem_foreachholder(pc.from, pc.sem, pc.handler, pc.arg)
  /\ (pc.loop = "nfreeholders" /\ pc.pholder = NOHOLDER)
       => pc.n = Len(Lists(Now)["g_freeholders"])

\* what is left of the loop in progress: the boosts the discard loop has not
\* looked at, or the nodes between the current one and the end of the list,
\* and one for the exit
Variant ==
  LET n == cfg_preallocholders + 1 IN
  CASE pc.loop = "none" -> 0
    [] pc.loop = "discard" -> 1 + (Len(pc.boosts) + 1 - pc.i)
    [] pc.loop = "freeholder" -> 1 + Len(Walk(pc.m, pc.curr, n))
    [] pc.loop = "findholder" -> 1 + Len(Walk(pc.m, pc.pholder, n))
    [] pc.loop = "foreach" -> 1 + Len(Walk(pc.m, pc.pholder, n))
    [] pc.loop = "nfreeholders" -> 1 + Len(Walk(Now, pc.pholder, n))

\* C28: the loops of the public operations come to their exit from every
\* reachable state, the loop that discards every boost of a semaphore while
\* it re-checks the current index and the walks over the pooled lists
\* included: what is left of a loop in progress is a natural number that
\* every iteration makes smaller, so the exit comes after that many steps at
\* most, and at the exit the loop has the result the operation goes on with.
C28_LoopsTerminate ==
  /\ [](LoopResult /\ Variant \in Nat)
  /\ [][pc.loop # "none" => Variant' < Variant]_vars

\* the discard loop is at its exit and has removed two boosts of the
\* semaphore from the ledger it started with
C28_Witness ==
  /\ pc.loop = "discard"
  /\ pc.i > Len(pc.boosts)
  /\ Len(pc.from) >= Len(pc.boosts) + 2

====
